---- MODULE Spec2Model ----
(***************************************************************************)
(* A model of the aegis-ai agent core:                                     *)
(*   - Orchestrator (src/aegis/core/orchestrator.py): the playbook runner, *)
(*     its agent steps (one chat_completion call each), skill steps and    *)
(*     the tool dispatch of handle_tool_calls;                             *)
(*   - ContextManager (src/aegis/core/context_manager.py): manage, the    *)
(*     turn-count cap of the history, and add_tool_result with the         *)
(*     truncation of tool outputs;                                         *)
(*   - Orchestrator._build_tool_registries over adapters that offer the    *)
(*     same tool name;                                                     *)
(*   - generate_plan of the Google and OpenAI adapters when the model call *)
(*     fails;                                                              *)
(*   - PlaywrightAdapter.connect / close and the BrowserMCPAdapter actions *)
(*     with their connect and close;                                       *)
(*   - routines: run_routine steps, execute_routine, substitute_params;    *)
(*   - two execute_playbook calls interleaved on one Orchestrator.         *)
(* Strings that the code only stores are kept as strings; a prompt, which  *)
(* step_requires_vision searches for keywords, is a sequence of            *)
(* lower-case words.  An Optional list that is None is the empty sequence  *)
(* (the code tests both with the same truthiness test); loop_with, where   *)
(* None and the empty list are told apart by the claims, is a record.      *)
(***************************************************************************)
EXTENDS Integers, Sequences, FiniteSets, TLC

VARIABLES
    playbook,        \* the Playbook handed to execute_playbook
    todo,            \* the steps execute_playbook's loop has still to run
    messages,        \* aegis_context.messages
    current_step,    \* aegis_context.current_step
    pc,              \* position of the run's coroutine
    tool_calls,      \* handle_tool_calls: its tool_calls parameter
    ci,              \* handle_tool_calls: index of the call being handled
    tool_responses,  \* handle_tool_calls: its local list tool_responses
    inflight,        \* the awaited external calls that have not completed
    response_role,   \* the role the configured LLM adapter gives its responses
    planner_calls,   \* number of chat_completion calls made so far
    invoked,         \* log of the capability invocations, in start order
    appended,        \* log of the turns appended to messages, in append order
    steps_done,      \* number of playbook steps execute_step has completed
    returned,        \* what execute_playbook returned or raised
    history,         \* ContextManager: the history list given to manage
    max_history_items, \* ContextManager.max_history_items
    view,            \* ContextManager: the result of manage(history)
    max_tool_output_tokens, \* ContextManager.max_tool_output_tokens
    outputs,         \* the tool_output given to add_tool_result, per turn of history
    adapters,        \* _build_tool_registries: the adapters it iterates over
    dispatch_map,    \* _build_tool_registries: its dispatch_map
    definitions,     \* _build_tool_registries: its definitions
    registry_built,  \* _build_tool_registries has returned
    llm_adapter,     \* the LLM adapter whose generate_plan is called
    attempt_number,  \* the attempts generate_plan's model call has made
    plan_outcome,    \* what the generate_plan call returned or raised
    model_errors,    \* the errors the model call has raised, in order
    frames,          \* execute_routine: the suspended loops of the callers, innermost first
    pw_playwright,   \* PlaywrightAdapter._playwright
    pw_browser,      \* PlaywrightAdapter._browser
    pw_page,         \* PlaywrightAdapter._page
    is_connected,    \* PlaywrightAdapter.is_connected
    pw_calls,        \* the connect() and close() calls made, with their outcomes
    client,          \* BrowserMCPAdapter.client
    process,         \* BrowserMCPAdapter: the server processes _start_server has started
    mcp_calls,       \* the calls made on the BrowserMCPAdapter, with their outcomes
    contexts,        \* two runs: the AegisContext objects created, by identity
    run_context,     \* two runs: the context each execute_playbook call works on
    run_pc,          \* two runs: the position of each execute_playbook coroutine
    run_todo         \* two runs: the steps each run has still to execute

orch_vars == <<playbook, response_role, todo, messages, current_step, pc, tool_calls, ci,
               tool_responses, inflight, planner_calls, invoked, appended,
               steps_done, returned>>
trim_vars == <<history, max_history_items, view>>
ctx_vars == <<max_tool_output_tokens, outputs>>
reg_vars == <<adapters, dispatch_map, definitions, registry_built>>
plan_vars == <<llm_adapter, attempt_number, plan_outcome, model_errors>>
routine_vars == <<frames>>
pw_vars == <<pw_playwright, pw_browser, pw_page, is_connected, pw_calls>>
mcp_vars == <<client, process, mcp_calls>>
run_vars == <<contexts, run_context, run_pc, run_todo>>
ext_vars == <<routine_vars, pw_vars, mcp_vars, run_vars>>
side_vars == <<ctx_vars, reg_vars, plan_vars, ext_vars>>
vars == <<orch_vars, trim_vars, side_vars>>

-----------------------------------------------------------------------------
(* Bounds of the model. *)

\* longest playbook
MaxSteps == 2
\* most tool calls the planner proposes in one response
MaxCalls == 2
\* most tool calls the planner proposes over one run
MaxRunCalls == 2
\* longest history handed to ContextManager.manage
MaxHistory == 4
\* largest max_history_items
MaxTurns == 3
\* most tool results add_tool_result adds to one history
MaxResults == 2

-----------------------------------------------------------------------------
(* Small helpers. *)

None == "None"

\* ContextManager.__init__: the default of max_history_items
DefaultMaxHistoryItems == 10

\* ContextManager.__init__: the default of max_tool_output_tokens
DefaultMaxToolOutputTokens == 2000

Last(s) == s[Len(s)]

\* the string made of n copies of s
RECURSIVE repeat(_, _)
repeat(s, n) ==
    IF n = 0 THEN ""
    ELSE IF n % 2 = 1 THEN s \o repeat(s, n - 1)
         ELSE LET half == repeat(s, n \div 2) IN half \o half

\* the parts of the model a specification does not exercise
ctx_idle == max_tool_output_tokens = DefaultMaxToolOutputTokens /\ outputs = <<>>
reg_idle ==
    adapters = <<>> /\ dispatch_map = {} /\ definitions = <<>> /\ registry_built = FALSE
plan_idle ==
    /\ llm_adapter = "none"
    /\ attempt_number = 0
    /\ plan_outcome = [kind |-> "none"]
    /\ model_errors = <<>>
routine_idle == frames = <<>>
pw_idle ==
    /\ pw_playwright = None
    /\ pw_browser = None
    /\ pw_page = None
    /\ is_connected = FALSE
    /\ pw_calls = <<>>
mcp_idle == client = None /\ process = 0 /\ mcp_calls = <<>>
run_idle == contexts = <<>> /\ run_context = <<>> /\ run_pc = <<>> /\ run_todo = <<>>
ext_idle == routine_idle /\ pw_idle /\ mcp_idle /\ run_idle

RECURSIVE SeqsUpTo(_, _)
SeqsUpTo(S, n) ==
    IF n = 0 THEN {<<>>}
    ELSE LET shorter == SeqsUpTo(S, n - 1)
         IN  shorter \cup {Append(s, x) : s \in {t \in shorter : Len(t) = n - 1}, x \in S}

-----------------------------------------------------------------------------
(* The adapters and the tool registry. *)

\* BrowserAdapter: its methods; no browser adapter defines get_tools
browser_adapter ==
    [id |-> "browser", has_get_tools |-> FALSE, tools |-> <<>>,
     methods |-> {"navigate", "get_page_content", "type_text", "paste", "click",
                  "scroll", "wait_for_element", "extract_data",
                  "get_activity_post_details", "wait", "paste_image",
                  "take_screenshot", "press_key"}]

\* AppleScriptOSAdapter: the names get_tools lists, and its methods
native_os_adapter ==
    [id |-> "native_os", has_get_tools |-> TRUE,
     tools |-> <<"launch_app", "quit_app", "list_windows", "focus_window",
                 "get_window_bounds", "set_window_bounds", "write_file",
                 "delete_file", "press_key_native", "type_text_native",
                 "read_screen_content", "read_clipboard", "write_clipboard",
                 "run_script">>,
     methods |-> {"launch_app", "quit_app", "list_windows", "focus_window",
                  "get_window_bounds", "set_window_bounds", "write_file",
                  "delete_file", "press_key_native", "type_text_native",
                  "read_screen_content", "read_clipboard", "write_clipboard",
                  "run_script", "get_tools"}]

adapters_with_tools == <<browser_adapter, native_os_adapter>>

adapter_by_id(id) ==
    CHOOSE a \in {adapters_with_tools[i] : i \in 1..Len(adapters_with_tools)} : a.id = id

\* dispatch_map after the adapters adapters_with_tools[1..n] have been aggregated:
\* the set of <<tool name, adapter id>> bindings, one per name, the later adapter winning.
RECURSIVE dispatch_upto(_)
dispatch_upto(n) ==
    IF n = 0 THEN {}
    ELSE LET adapter == adapters_with_tools[n]
             names == IF adapter.has_get_tools
                      THEN {adapter.tools[i] : i \in 1..Len(adapter.tools)}
                      ELSE {}
         IN  {b \in dispatch_upto(n - 1) : b[1] \notin names}
                 \cup {<<t, adapter.id>> : t \in names}

tool_dispatch_map == dispatch_upto(Len(adapters_with_tools))

\* self.tool_dispatch_map.get(name): the id of the adapter bound to name, or None
dispatch_get(name) ==
    IF \E b \in tool_dispatch_map : b[1] = name
    THEN (CHOOSE b \in tool_dispatch_map : b[1] = name)[2]
    ELSE None

\* `adapter and hasattr(adapter, name)`
resolves(name) ==
    LET id == dispatch_get(name)
    IN  id # None /\ name \in adapter_by_id(id).methods

-----------------------------------------------------------------------------
(* Messages, steps and the inputs of a run. *)

\* models.Message; content is a sequence of strings, None being <<>>
Message(role, content, calls, responses) ==
    [role |-> role, content |-> content, tool_calls |-> calls,
     tool_responses |-> responses]

\* models.ToolResponse
ToolResponse(call, content) ==
    [tool_call_id |-> call.id, tool_name |-> call.function_name, content |-> content]

\* The steps a playbook is drawn from: agent steps whose prompt holds a
\* non-visual keyword or holds none, skill steps naming a registered function or
\* an unregistered one, a human intervention, and a step of an unknown type.
StepKinds ==
    { [name |-> "act", type |-> "agent_step", prompt |-> <<"click", "save">>,
       function_name |-> None],
      [name |-> "look", type |-> "agent_step", prompt |-> <<"summarize", "the", "page">>,
       function_name |-> None],
      [name |-> "clip", type |-> "skill_step", prompt |-> <<>>,
       function_name |-> "read_clipboard"],
      [name |-> "nav", type |-> "skill_step", prompt |-> <<>>,
       function_name |-> "navigate"],
      [name |-> "ask", type |-> "human_intervention", prompt |-> <<"log", "in">>,
       function_name |-> None],
      [name |-> "odd", type |-> "pause", prompt |-> <<>>, function_name |-> None] }

\* a playbook of agent steps long enough for the history to outgrow the
\* ContextManager's default max_history_items (each step adds two messages)
LongPlaybook ==
    [i \in 1..(DefaultMaxHistoryItems \div 2 + 1)
        |-> [name |-> "act", type |-> "agent_step", prompt |-> <<"click", "save">>,
             function_name |-> None]]

Playbooks == {s \in SeqsUpTo(StepKinds, MaxSteps) : Len(s) >= 1} \cup {LongPlaybook}

\* what the planner may name: a registered tool, a browser method no adapter
\* registered, and the finish sentinel the LLM adapters declare
ToolNames == {"launch_app", "click", "finish_task"}

\* the tool_calls of a response naming `names`: the ids of a run's calls are
\* 1, 2, ... in the order proposed (an LLM API gives every call its own id)
plan_of(names, base) ==
    [i \in 1..Len(names) |-> [id |-> base + i, function_name |-> names[i]]]

PlanNames == SeqsUpTo(ToolNames, MaxCalls)

\* the role the LLM adapter gives its response Message
ResponseRoles == {"assistant", "model"}

\* what a capability returns (a string: the empty one, or a long page) or raises
\* a tool output longer than the ContextManager's default output limit allows
page_dump == repeat("x", 4 * DefaultMaxToolOutputTokens + 100)

Results == {"", page_dump}
Errors == {"boom"}

\* number of tool calls proposed in msgs
RECURSIVE ProposedCalls(_)
ProposedCalls(msgs) ==
    IF msgs = <<>> THEN 0
    ELSE Len(Head(msgs).tool_calls) + ProposedCalls(Tail(msgs))

\* `keyword in prompt_lower`, on words
Contains(prompt, keyword) ==
    \E i \in 1..Len(prompt) :
        /\ i + Len(keyword) - 1 <= Len(prompt)
        /\ SubSeq(prompt, i, i + Len(keyword) - 1) = keyword

non_visual_keywords ==
    { <<"navigate", "to">>, <<"selector">>, <<"wait", "for">>, <<"paste_image">>,
      <<"type_text">>, <<"click">>, <<"press_key">> }

step_requires_vision(step) ==
    IF step.type # "agent_step" THEN FALSE
    ELSE ~ \E keyword \in non_visual_keywords : Contains(step.prompt, keyword)

-----------------------------------------------------------------------------
(* Orchestrator: the pieces of its handlers that compute values. *)

\* the AegisContext execute_playbook works on: create_context is not part of the
\* source tree; the context is a newly constructed AegisContext, whose messages
\* default to the empty list
create_context(pb) ==
    [playbook |-> pb, messages |-> <<>>, current_step |-> None]

\* execute_agent_step, lines 111-114: the messages handed to chat_completion
with_prompt(msgs, step) ==
    IF step_requires_vision(step) THEN msgs
    ELSE Append(msgs, Message("user", step.prompt, <<>>, <<>>))

\* handle_tool_calls, line 161: `str(result) or "Success"` of a string result
success_content(result) == IF result = "" THEN <<"Success">> ELSE <<result>>

\* handle_tool_calls, line 164: f"Error: {e}"
error_content(e) == <<"Error:", e>>

\* handle_tool_calls, line 167
not_found_content == <<"Error: Tool not found">>

\* the responses recorded by rewriting the last message as a tool message
attach_responses_rewrite(msgs, responses) ==
    IF msgs # <<>>
    THEN [msgs EXCEPT ![Len(msgs)] = Message("tool", <<>>, <<>>, responses)]
    ELSE Append(msgs, Message("tool", <<>>, <<>>, responses))

\* the responses recorded on the last assistant message and in a new tool
\* message as well
attach_responses_twice(msgs, responses) ==
    IF msgs # <<>> /\ Last(msgs).role = "assistant"
    THEN Append([msgs EXCEPT ![Len(msgs)].tool_responses = responses],
                Message("tool", <<>>, <<>>, responses))
    ELSE Append(msgs, Message("tool", <<>>, <<>>, responses))

\* handle_tool_calls, lines 169-173: where the collected responses go
attach_responses(msgs, responses) ==
    IF msgs # <<>> /\ Last(msgs).role = "assistant"
    THEN [msgs EXCEPT ![Len(msgs)].tool_responses = responses]
    ELSE Append(msgs, Message("tool", <<>>, <<>>, responses))

\* execute_skill_step, lines 134-136
skill_not_found_message(step) ==
    Message("user", <<"Error: Function", step.function_name,
                      "not found in any registered adapter.">>, <<>>, <<>>)

\* execute_skill_step, line 143
skill_done_message(step, result) ==
    Message("user", <<"Skill", step.name, "completed. Result:", result>>, <<>>, <<>>)

\* execute_skill_step, line 146
skill_error_message(step, e) ==
    Message("user", <<"Error executing skill", step.name, e>>, <<>>, <<>>)

\* a return of a newly created context instead of the one the run worked on
return_value_fresh(pb, msgs, step) == create_context(pb)

\* execute_playbook, line 70: the value returned is the context itself
return_value(pb, msgs, step) ==
    [playbook |-> pb, messages |-> msgs, current_step |-> step]

LLMCall == [kind |-> "chat_completion", id |-> 0, name |-> "chat_completion"]
ToolCallInFlight(id, name) == [kind |-> "tool", id |-> id, name |-> name]

-----------------------------------------------------------------------------
(* Orchestrator: the run as a state machine. *)

Init ==
    /\ playbook \in {[steps |-> s] : s \in Playbooks}
    /\ response_role \in ResponseRoles
    /\ todo = playbook.steps
    /\ messages = create_context(playbook).messages
    /\ current_step = create_context(playbook).current_step
    /\ pc = "next"
    /\ tool_calls = <<>>
    /\ ci = 0
    /\ tool_responses = <<>>
    /\ inflight = {}
    /\ planner_calls = 0
    /\ invoked = <<>>
    /\ appended = <<>>
    /\ steps_done = 0
    /\ returned = [kind |-> "none"]
    /\ history = <<>>
    /\ max_history_items = DefaultMaxHistoryItems
    /\ view = [done |-> FALSE, raised |-> FALSE, value |-> <<>>]
    /\ ctx_idle /\ reg_idle /\ plan_idle /\ ext_idle

\* what no step of a run changes
fixed == <<playbook, response_role, trim_vars, side_vars>>

no_tool_loop == UNCHANGED <<tool_calls, ci, tool_responses>>

\* the turn a message was when it was appended
Turn(m) == [role |-> m.role, content |-> m.content, tool_calls |-> m.tool_calls]

\* the log of appended turns after messages went from old to new
log_appends(log, old, new) ==
    log \o [k \in 1..(Len(new) - Len(old)) |-> Turn(new[Len(old) + k])]

\* execute_step has dispatched todo's first step
BeginStep(type) ==
    /\ pc = "next"
    /\ todo # <<>>
    /\ Head(todo).type = type
    /\ current_step' = Head(todo)
    /\ todo' = Tail(todo)

\* execute_step -> handle_human_intervention: input() returns
HumanIntervention ==
    /\ BeginStep("human_intervention")
    /\ steps_done' = steps_done + 1
    /\ no_tool_loop
    /\ UNCHANGED <<fixed, messages, appended, pc, inflight, planner_calls, invoked,
                   returned>>

\* execute_step: a step of none of the four types is only logged
UnknownStepType ==
    /\ pc = "next"
    /\ todo # <<>>
    /\ Head(todo).type \notin {"human_intervention", "skill_step", "agent_step",
                               "run_routine"}
    /\ current_step' = Head(todo)
    /\ todo' = Tail(todo)
    /\ steps_done' = steps_done + 1
    /\ no_tool_loop
    /\ UNCHANGED <<fixed, messages, appended, pc, inflight, planner_calls, invoked,
                   returned>>

\* execute_step -> execute_agent_step up to the await of chat_completion
ExecuteAgentStep ==
    /\ BeginStep("agent_step")
    /\ messages' = with_prompt(messages, Head(todo))
    /\ appended' = log_appends(appended, messages, messages')
    /\ planner_calls' = planner_calls + 1
    /\ inflight' = inflight \cup {LLMCall}
    /\ pc' = "llm"
    /\ no_tool_loop
    /\ UNCHANGED <<fixed, invoked, steps_done, returned>>

\* an agent step that treats a proposed finish_task as the end of the run: the
\* response is appended, nothing is executed and the remaining steps are dropped
ChatCompletionReturns_StopsOnFinish(names) ==
    /\ pc = "llm"
    /\ ProposedCalls(messages) + Len(names) <= MaxRunCalls
    /\ inflight' = inflight \ {LLMCall}
    /\ messages' = Append(messages, Message(response_role, <<>>,
                                            plan_of(names, ProposedCalls(messages)), <<>>))
    /\ appended' = log_appends(appended, messages, messages')
    /\ IF \E j \in 1..Len(names) : names[j] = "finish_task"
       THEN /\ pc' = "next"
            /\ todo' = <<>>
            /\ steps_done' = steps_done + 1
            /\ no_tool_loop
       ELSE /\ UNCHANGED todo
            /\ IF names # <<>>
               THEN /\ pc' = "calls"
                    /\ tool_calls' = plan_of(names, ProposedCalls(messages))
                    /\ ci' = 1
                    /\ tool_responses' = <<>>
                    /\ UNCHANGED steps_done
               ELSE /\ pc' = "next"
                    /\ steps_done' = steps_done + 1
                    /\ no_tool_loop
    /\ UNCHANGED <<fixed, current_step, planner_calls, invoked, returned>>

\* an agent step that treats a response without tool calls as the end of the
\* run: the remaining steps are dropped
ChatCompletionReturns_StopsOnEmpty(names) ==
    /\ pc = "llm"
    /\ ProposedCalls(messages) + Len(names) <= MaxRunCalls
    /\ inflight' = inflight \ {LLMCall}
    /\ messages' = Append(messages, Message(response_role, <<>>,
                                            plan_of(names, ProposedCalls(messages)), <<>>))
    /\ appended' = log_appends(appended, messages, messages')
    /\ IF names # <<>>
       THEN /\ pc' = "calls"
            /\ tool_calls' = plan_of(names, ProposedCalls(messages))
            /\ ci' = 1
            /\ tool_responses' = <<>>
            /\ UNCHANGED <<steps_done, todo>>
       ELSE /\ pc' = "next"
            /\ todo' = <<>>
            /\ steps_done' = steps_done + 1 + Len(todo)
            /\ no_tool_loop
    /\ UNCHANGED <<fixed, current_step, planner_calls, invoked, returned>>

\* chat_completion returns response_message; execute_agent_step lines 117-122
ChatCompletionReturns(names) ==
    /\ pc = "llm"
    /\ ProposedCalls(messages) + Len(names) <= MaxRunCalls
    /\ inflight' = inflight \ {LLMCall}
    /\ messages' = Append(messages, Message(response_role, <<>>,
                                            plan_of(names, ProposedCalls(messages)), <<>>))
    /\ appended' = log_appends(appended, messages, messages')
    /\ IF names # <<>>
       THEN /\ pc' = "calls"
            /\ tool_calls' = plan_of(names, ProposedCalls(messages))
            /\ ci' = 1
            /\ tool_responses' = <<>>
            /\ UNCHANGED steps_done
       ELSE /\ pc' = "next"
            /\ steps_done' = steps_done + 1
            /\ no_tool_loop
    /\ UNCHANGED <<fixed, todo, current_step, planner_calls, invoked, returned>>

\* chat_completion raises: nothing in the orchestrator catches it
ChatCompletionRaises(e) ==
    /\ pc = "llm"
    /\ inflight' = inflight \ {LLMCall}
    /\ pc' = "raised"
    /\ returned' = [kind |-> "exception", from |-> "chat_completion", error |-> e]
    /\ no_tool_loop
    /\ UNCHANGED <<fixed, todo, messages, appended, current_step, planner_calls,
                   invoked, steps_done>>

\* responses collected at the front of the list
collect_prepend(responses, response) == <<response>> \o responses

\* handle_tool_calls: tool_responses.append(...)
collect(responses, response) == Append(responses, response)

\* handle_tool_calls: the response of call ci is collected; the loop goes on to the
\* next call, or ends and lines 169-173 record the responses in the history
RecordResponse(response) ==
    IF ci < Len(tool_calls)
    THEN /\ tool_responses' = collect(tool_responses, response)
         /\ ci' = ci + 1
         /\ pc' = "calls"
         /\ UNCHANGED <<tool_calls, messages, appended, steps_done>>
    ELSE /\ messages' = attach_responses(messages, collect(tool_responses, response))
         /\ appended' = log_appends(appended, messages, messages')
         /\ tool_responses' = <<>>
         /\ tool_calls' = <<>>
         /\ ci' = 0
         /\ pc' = "next"
         /\ steps_done' = steps_done + 1

\* the log entry of a capability invocation that has just started
Invocation(kind, id, name) ==
    [step |-> steps_done + 1, kind |-> kind, id |-> id, name |-> name,
     outcome |-> "pending"]

\* the log with the outcome of the invocation in flight filled in
Completed(log, outcome) == [log EXCEPT ![Len(log)].outcome = outcome]

\* an unknown name that ends the loop over the plan: the responses collected so
\* far are recorded and the remaining calls are dropped
ToolNotFound_Abort ==
    /\ pc = "calls"
    /\ ~ resolves(tool_calls[ci].function_name)
    /\ messages' = attach_responses(messages,
                      collect(tool_responses, ToolResponse(tool_calls[ci], not_found_content)))
    /\ appended' = log_appends(appended, messages, messages')
    /\ tool_responses' = <<>>
    /\ tool_calls' = <<>>
    /\ ci' = 0
    /\ pc' = "next"
    /\ steps_done' = steps_done + 1
    /\ UNCHANGED <<fixed, todo, current_step, inflight, planner_calls, invoked,
                   returned>>

\* handle_tool_calls, lines 165-167: the name resolves to no adapter method
ToolNotFound ==
    /\ pc = "calls"
    /\ ~ resolves(tool_calls[ci].function_name)
    /\ RecordResponse(ToolResponse(tool_calls[ci], not_found_content))
    /\ UNCHANGED <<fixed, todo, current_step, inflight, planner_calls, invoked,
                   returned>>

\* a tool function that is started and not awaited: the loop goes on to the next
\* call while this one is in flight
ToolInvoke_NoAwait ==
    /\ pc = "calls"
    /\ resolves(tool_calls[ci].function_name)
    /\ inflight' = inflight \cup {ToolCallInFlight(tool_calls[ci].id,
                                                   tool_calls[ci].function_name)}
    /\ invoked' = Append(invoked, Invocation("tool", tool_calls[ci].id,
                                             tool_calls[ci].function_name))
    /\ IF ci < Len(tool_calls)
       THEN ci' = ci + 1 /\ pc' = "calls"
       ELSE ci' = ci /\ pc' = "tool"
    /\ UNCHANGED <<fixed, todo, messages, appended, current_step, tool_calls,
                   tool_responses, planner_calls, steps_done, returned>>

\* handle_tool_calls, lines 157-160: the tool function is called and awaited
ToolInvoke ==
    /\ pc = "calls"
    /\ resolves(tool_calls[ci].function_name)
    /\ pc' = "tool"
    /\ inflight' = inflight \cup {ToolCallInFlight(tool_calls[ci].id,
                                                   tool_calls[ci].function_name)}
    /\ invoked' = Append(invoked, Invocation("tool", tool_calls[ci].id,
                                             tool_calls[ci].function_name))
    /\ UNCHANGED <<fixed, todo, messages, appended, current_step, tool_calls, ci,
                   tool_responses, planner_calls, steps_done, returned>>

\* handle_tool_calls, line 161: the tool function returns result
ToolReturns(result) ==
    /\ pc = "tool"
    /\ inflight' = inflight \ {ToolCallInFlight(tool_calls[ci].id,
                                                tool_calls[ci].function_name)}
    /\ invoked' = Completed(invoked, "returned")
    /\ RecordResponse(ToolResponse(tool_calls[ci], success_content(result)))
    /\ UNCHANGED <<fixed, todo, current_step, planner_calls, returned>>

\* a tool function's exception that is not caught and ends the run
ToolRaises_Propagates(e) ==
    /\ pc = "tool"
    /\ inflight' = inflight \ {ToolCallInFlight(tool_calls[ci].id,
                                                tool_calls[ci].function_name)}
    /\ invoked' = Completed(invoked, "raised")
    /\ pc' = "raised"
    /\ returned' = [kind |-> "exception", from |-> "tool", error |-> e]
    /\ UNCHANGED <<fixed, todo, messages, appended, current_step, tool_calls, ci,
                   tool_responses, planner_calls, steps_done>>

\* handle_tool_calls, lines 162-164: the tool function raises e
ToolRaises(e) ==
    /\ pc = "tool"
    /\ inflight' = inflight \ {ToolCallInFlight(tool_calls[ci].id,
                                                tool_calls[ci].function_name)}
    /\ invoked' = Completed(invoked, "raised")
    /\ RecordResponse(ToolResponse(tool_calls[ci], error_content(e)))
    /\ UNCHANGED <<fixed, todo, current_step, planner_calls, returned>>

\* execute_step -> execute_skill_step, lines 131-137: no adapter has the function
SkillNotFound ==
    /\ BeginStep("skill_step")
    /\ ~ resolves(Head(todo).function_name)
    /\ messages' = Append(messages, skill_not_found_message(Head(todo)))
    /\ appended' = log_appends(appended, messages, messages')
    /\ steps_done' = steps_done + 1
    /\ no_tool_loop
    /\ UNCHANGED <<fixed, pc, inflight, planner_calls, invoked, returned>>

\* execute_skill_step, lines 139-141: the skill function is called and awaited
SkillInvoke ==
    /\ BeginStep("skill_step")
    /\ resolves(Head(todo).function_name)
    /\ pc' = "skill"
    /\ inflight' = inflight \cup {ToolCallInFlight(0, Head(todo).function_name)}
    /\ invoked' = Append(invoked, Invocation("skill", 0, Head(todo).function_name))
    /\ no_tool_loop
    /\ UNCHANGED <<fixed, messages, appended, planner_calls, steps_done, returned>>

\* execute_skill_step, lines 142-143: the skill function returns result
SkillReturns(result) ==
    /\ pc = "skill"
    /\ inflight' = inflight \ {ToolCallInFlight(0, current_step.function_name)}
    /\ invoked' = Completed(invoked, "returned")
    /\ messages' = Append(messages, skill_done_message(current_step, result))
    /\ appended' = log_appends(appended, messages, messages')
    /\ pc' = "next"
    /\ steps_done' = steps_done + 1
    /\ no_tool_loop
    /\ UNCHANGED <<fixed, todo, current_step, planner_calls, returned>>

\* a skill's exception that escapes execute_skill_step and ends the run
SkillRaises_Propagates(e) ==
    /\ pc = "skill"
    /\ inflight' = inflight \ {ToolCallInFlight(0, current_step.function_name)}
    /\ invoked' = Completed(invoked, "raised")
    /\ pc' = "raised"
    /\ returned' = [kind |-> "exception", from |-> current_step.function_name,
                    error |-> e]
    /\ no_tool_loop
    /\ UNCHANGED <<fixed, todo, messages, appended, current_step, planner_calls,
                   steps_done>>

\* execute_skill_step, lines 144-146: the skill function raises e
SkillRaises(e) ==
    /\ pc = "skill"
    /\ inflight' = inflight \ {ToolCallInFlight(0, current_step.function_name)}
    /\ invoked' = Completed(invoked, "raised")
    /\ messages' = Append(messages, skill_error_message(current_step, e))
    /\ appended' = log_appends(appended, messages, messages')
    /\ pc' = "next"
    /\ steps_done' = steps_done + 1
    /\ no_tool_loop
    /\ UNCHANGED <<fixed, todo, current_step, planner_calls, returned>>

\* execute_playbook, lines 66-70: the loop over playbook.steps is over
Return ==
    /\ pc = "next"
    /\ todo = <<>>
    /\ frames = <<>>
    /\ pc' = "returned"
    /\ returned' = [kind |-> "context",
                    value |-> return_value(playbook, messages, current_step)]
    /\ no_tool_loop
    /\ UNCHANGED <<fixed, todo, messages, appended, current_step, inflight,
                   planner_calls, invoked, steps_done>>

Next ==
    \/ HumanIntervention
    \/ UnknownStepType
    \/ ExecuteAgentStep
    \/ \E names \in PlanNames : ChatCompletionReturns(names)
    \/ \E e \in Errors : ChatCompletionRaises(e)
    \/ ToolNotFound
    \/ ToolInvoke
    \/ \E result \in Results : ToolReturns(result)
    \/ \E e \in Errors : ToolRaises(e)
    \/ SkillNotFound
    \/ SkillInvoke
    \/ \E result \in Results : SkillReturns(result)
    \/ \E e \in Errors : SkillRaises(e)
    \/ Return

Spec == Init /\ [][Next]_vars

-----------------------------------------------------------------------------
(* ContextManager.manage on histories of dictionary turns. *)

\* the turns a history is made of
HistoryTurns == [type : {"human", "ai", "tool"}, content : {"x", "y"}]

\* the values max_history_items is given; the constructor accepts any integer
TurnLimits == (0 - 1)..MaxTurns

max(a, b) == IF a >= b THEN a ELSE b
min(a, b) == IF a <= b THEN a ELSE b

\* the Python slice s[start:]
slice_from(s, start) ==
    LET lo == IF start < 0 THEN max(Len(s) + start, 0) ELSE min(start, Len(s))
    IN  SubSeq(s, lo + 1, Len(s))

\* a cap that keeps the last `limit` turns and does not pin the first
manage_tail_only(h, limit) ==
    IF Len(h) > limit
    THEN [done |-> TRUE, raised |-> FALSE, value |-> slice_from(h, 0 - limit)]
    ELSE [done |-> TRUE, raised |-> FALSE, value |-> h]

\* ContextManager.manage: the list returned, or the IndexError of history[0]
manage(h, limit) ==
    IF Len(h) > limit
    THEN IF h = <<>>
         THEN [done |-> TRUE, raised |-> TRUE, value |-> <<>>]
         ELSE [done |-> TRUE, raised |-> FALSE,
               value |-> <<h[1]>> \o slice_from(h, 0 - (limit - 1))]
    ELSE [done |-> TRUE, raised |-> FALSE, value |-> h]

TrimInit ==
    /\ playbook = [steps |-> <<>>]
    /\ response_role = "assistant"
    /\ todo = <<>>
    /\ messages = <<>>
    /\ current_step = None
    /\ pc = "idle"
    /\ tool_calls = <<>>
    /\ ci = 0
    /\ tool_responses = <<>>
    /\ inflight = {}
    /\ planner_calls = 0
    /\ invoked = <<>>
    /\ appended = <<>>
    /\ steps_done = 0
    /\ returned = [kind |-> "none"]
    /\ history \in SeqsUpTo(HistoryTurns, MaxHistory)
    /\ max_history_items \in TurnLimits
    /\ view = [done |-> FALSE, raised |-> FALSE, value |-> <<>>]
    /\ ctx_idle /\ reg_idle /\ plan_idle /\ ext_idle

\* manage(history) is called
Manage ==
    /\ ~ view.done
    /\ view' = manage(history, max_history_items)
    /\ UNCHANGED <<orch_vars, history, max_history_items, side_vars>>

TrimNext == Manage

TrimSpec == TrimInit /\ [][TrimNext]_vars

-----------------------------------------------------------------------------
(* ContextManager: add_tool_result and manage on one history.  Tool outputs *)
(* and contents are strings, character for character.                       *)

\* the Python slice s[:stop]
slice_to(s, stop) ==
    LET hi == IF stop < 0 THEN max(Len(s) + stop, 0) ELSE min(stop, Len(s))
    IN  SubSeq(s, 1, hi)

\* _truncate_content, line 43: the warning appended to a truncated output
warning(tokens) ==
    "... [Output truncated to approximately " \o ToString(tokens) \o " tokens]"

\* a truncation that takes the limit for a number of characters
truncate_content_by_tokens(content, tokens) ==
    IF Len(content) > tokens
    THEN slice_to(content, tokens) \o "\n\n" \o warning(tokens)
    ELSE content

\* ContextManager._truncate_content with max_tool_output_tokens = tokens
truncate_content(content, tokens) ==
    LET max_chars == tokens * 4
    IN  IF Len(content) > max_chars
        THEN slice_to(content, max_chars) \o "\n\n" \o warning(tokens)
        ELSE content

\* an add_tool_result that stores the output as it is given
add_tool_result_raw(h, tool_name, tool_output, tokens) ==
    Append(h, [type |-> "tool", name |-> tool_name, content |-> tool_output])

\* ContextManager.add_tool_result for a string tool_output
add_tool_result(h, tool_name, tool_output, tokens) ==
    Append(h, [type |-> "tool", name |-> tool_name,
               content |-> truncate_content(tool_output, tokens)])

\* the values max_tool_output_tokens is given; the constructor accepts any integer
TokenLimits == {0 - 1, 0, 1, 2, DefaultMaxToolOutputTokens}

\* the outputs tools hand back: short ones around 4 and 8 characters, a page of
\* 5000 characters and one just over 4 * 2000 characters
ToolOutputs == {"abc", "abcdefgh", "abcdefghi", repeat("x", 5000), repeat("y", 8001)}

\* the histories the caller has built before the first tool result
InitialHistories ==
    {<<>>,
     <<[type |-> "human", content |-> "click save"]>>,
     <<[type |-> "human", content |-> "click save"],
       [type |-> "ai", content |-> "read_clipboard"]>>}

\* no playbook is being run
orch_idle ==
    /\ playbook = [steps |-> <<>>]
    /\ response_role = "assistant"
    /\ todo = <<>>
    /\ messages = <<>>
    /\ current_step = None
    /\ pc = "idle"
    /\ tool_calls = <<>>
    /\ ci = 0
    /\ tool_responses = <<>>
    /\ inflight = {}
    /\ planner_calls = 0
    /\ invoked = <<>>
    /\ appended = <<>>
    /\ steps_done = 0
    /\ returned = [kind |-> "none"]

ContextInit ==
    /\ orch_idle
    /\ history \in InitialHistories
    /\ max_history_items \in TurnLimits
    /\ view = [done |-> FALSE, raised |-> FALSE, value |-> <<>>]
    /\ max_tool_output_tokens \in TokenLimits
    /\ outputs = [i \in 1..Len(history) |-> None]
    /\ reg_idle /\ plan_idle /\ ext_idle

\* the tool results added to history so far
ToolTurns == {i \in 1..Len(history) : outputs[i] # None}

\* add_tool_result(history, tool_name, tool_output) is called
AddToolResult(tool_name, tool_output) ==
    /\ ~ view.done
    /\ Cardinality(ToolTurns) < MaxResults
    /\ history' = add_tool_result(history, tool_name, tool_output, max_tool_output_tokens)
    /\ outputs' = Append(outputs, tool_output)
    /\ UNCHANGED <<orch_vars, max_history_items, view, max_tool_output_tokens,
                   reg_vars, plan_vars, ext_vars>>

ContextNext ==
    \/ \E tool_output \in ToolOutputs : AddToolResult("read_clipboard", tool_output)
    \/ Manage

ContextSpec == ContextInit /\ [][ContextNext]_vars

-----------------------------------------------------------------------------
(* Orchestrator._build_tool_registries over adapters that may offer the same *)
(* tool name.                                                                *)

\* the tool names the two adapters may list
RegistryNames == {"click", "type_text"}

\* the lists get_tools may return: every name at most once per adapter
ToolLists ==
    {l \in SeqsUpTo(RegistryNames, Cardinality(RegistryNames)) :
        \A i, j \in 1..Len(l) : i # j => l[i] # l[j]}

\* self.browser_adapter and self.native_os_adapter as the factories may build
\* them: with or without a get_tools method, listing `tools`
AdapterChoices(id) ==
    {[id |-> id, has_get_tools |-> g, tools |-> l] : g \in BOOLEAN, l \in ToolLists}

\* adapter.get_tools(): the adapter's own definition of each tool it lists
get_tools(adapter) ==
    [i \in 1..Len(adapter.tools) |-> [name |-> adapter.tools[i], adapter |-> adapter.id]]

\* lines 50-51: dispatch_map[tool['name']] = adapter for every tool of the adapter
bind(map, adapter_tools, adapter) ==
    {b \in map : \A i \in 1..Len(adapter_tools) : b[1] # adapter_tools[i].name}
        \cup {<<adapter_tools[i].name, adapter.id>> : i \in 1..Len(adapter_tools)}

\* _build_tool_registries after the first n adapters of ads
RECURSIVE build_tool_registries_upto(_, _)
build_tool_registries_upto(ads, n) ==
    IF n = 0 THEN [dispatch_map |-> {}, definitions |-> <<>>]
    ELSE LET before == build_tool_registries_upto(ads, n - 1)
             adapter == ads[n]
         IN  IF adapter.has_get_tools
             THEN [dispatch_map |-> bind(before.dispatch_map, get_tools(adapter), adapter),
                   definitions |-> before.definitions \o get_tools(adapter)]
             ELSE before

RegistryInit ==
    /\ orch_idle
    /\ history = <<>>
    /\ max_history_items = DefaultMaxHistoryItems
    /\ view = [done |-> FALSE, raised |-> FALSE, value |-> <<>>]
    /\ ctx_idle
    /\ plan_idle
    /\ ext_idle
    /\ adapters \in {<<b, n>> : b \in AdapterChoices("browser"),
                                n \in AdapterChoices("native_os")}
    /\ dispatch_map = {}
    /\ definitions = <<>>
    /\ registry_built = FALSE

\* Orchestrator.__init__ calls self._build_tool_registries()
BuildToolRegistries ==
    /\ ~ registry_built
    /\ LET built == build_tool_registries_upto(adapters, Len(adapters))
       IN  /\ dispatch_map' = built.dispatch_map
           /\ definitions' = built.definitions
    /\ registry_built' = TRUE
    /\ UNCHANGED <<orch_vars, trim_vars, ctx_vars, plan_vars, ext_vars, adapters>>

RegistryNext == BuildToolRegistries

RegistrySpec == RegistryInit /\ [][RegistryNext]_vars

-----------------------------------------------------------------------------
(* generate_plan of the two LLM adapters when the model call fails.          *)

\* stop_after_attempt(3) of GoogleGenAIAdapter.generate_plan's retry decorator
StopAfterAttempt == 3

\* what the model call may raise
ModelErrors == {"timeout", "quota"}

\* the value generate_plan builds from the tool calls of the model's response
plan_value(names) == [i \in 1..Len(names) |-> [tool_name |-> names[i]]]

PlannerInit ==
    /\ orch_idle
    /\ history = <<>>
    /\ max_history_items = DefaultMaxHistoryItems
    /\ view = [done |-> FALSE, raised |-> FALSE, value |-> <<>>]
    /\ ctx_idle
    /\ reg_idle
    /\ ext_idle
    /\ llm_adapter \in {"google", "openai"}
    /\ attempt_number = 1
    /\ plan_outcome = [kind |-> "none"]
    /\ model_errors = <<>>

plan_frame ==
    UNCHANGED <<orch_vars, trim_vars, ctx_vars, reg_vars, ext_vars, llm_adapter>>

\* the model call of the current attempt returns a response naming `names`
ModelCallReturns(names) ==
    /\ plan_outcome.kind = "none"
    /\ plan_outcome' = [kind |-> "returned", value |-> plan_value(names)]
    /\ UNCHANGED <<attempt_number, model_errors>>
    /\ plan_frame

\* GoogleGenAIAdapter: the model call raises, generate_plan re-raises (lines
\* 134-136) and the retry decorator makes the next attempt or, after the
\* last one, raises RetryError
GoogleModelCallRaises(e) ==
    /\ llm_adapter = "google"
    /\ plan_outcome.kind = "none"
    /\ model_errors' = Append(model_errors, e)
    /\ IF attempt_number < StopAfterAttempt
       THEN /\ attempt_number' = attempt_number + 1
            /\ UNCHANGED plan_outcome
       ELSE /\ plan_outcome' = [kind |-> "raised", error |-> "RetryError"]
            /\ UNCHANGED attempt_number
    /\ plan_frame

\* OpenAIAdapter: the model call raises, generate_plan logs and returns []
OpenAIModelCallRaises(e) ==
    /\ llm_adapter = "openai"
    /\ plan_outcome.kind = "none"
    /\ model_errors' = Append(model_errors, e)
    /\ plan_outcome' = [kind |-> "returned", value |-> <<>>]
    /\ UNCHANGED attempt_number
    /\ plan_frame

PlannerNext ==
    \/ \E names \in PlanNames : ModelCallReturns(names)
    \/ \E e \in ModelErrors : GoogleModelCallRaises(e)
    \/ \E e \in ModelErrors : OpenAIModelCallRaises(e)

PlannerSpec == PlannerInit /\ [][PlannerNext]_vars

-----------------------------------------------------------------------------
(* PlaywrightAdapter: connect() and close(), one call at a time; every awaited *)
(* library call may return or raise.                                          *)

\* the calls made on one adapter object in a behaviour
MaxAdapterCalls == 3

\* PlaywrightAdapter.__init__, lines 18-22, and the last line of close()
pw_cleared ==
    [playwright |-> None, browser |-> None, page |-> None, is_connected |-> FALSE]

\* the adapter object as a record of its fields
pw_adapter ==
    [playwright |-> pw_playwright, browser |-> pw_browser, page |-> pw_page,
     is_connected |-> is_connected]

\* where an awaited call of connect() may raise: async_playwright().start(),
\* connect_over_cdp, new_context / new_page, or nowhere
ConnectFailures == {"none", "start", "connect_over_cdp", "new_page"}

\* where an awaited call of close() may raise: browser.close(), playwright.stop(),
\* or nowhere
CloseFailures == {"none", "browser.close", "playwright.stop"}

\* close(), lines 42-48; browser_connected is what self._browser.is_connected()
\* answers. The result is the adapter afterwards and whether close() raised.
pw_close(a, browser_connected, fails_at) ==
    IF a.browser # None /\ browser_connected /\ fails_at = "browser.close"
    THEN [adapter |-> a, raised |-> TRUE]
    ELSE IF a.playwright # None /\ fails_at = "playwright.stop"
    THEN [adapter |-> a, raised |-> TRUE]
    ELSE [adapter |-> pw_cleared, raised |-> FALSE]

\* connect(), lines 24-40. The result is the adapter afterwards and how the call
\* ended: "returned", "ConnectionError" (line 40) or "raised" (another exception).
pw_connect(a, fails_at, browser_connected, cleanup_fails_at) ==
    IF a.is_connected THEN [adapter |-> a, outcome |-> "returned"]
    ELSE IF fails_at = "start" THEN [adapter |-> a, outcome |-> "raised"]
    ELSE LET started == [a EXCEPT !.playwright = "playwright"]
             attached == [started EXCEPT !.browser = "browser"]
         IN  IF fails_at = "none"
             THEN [adapter |-> [attached EXCEPT !.page = "page", !.is_connected = TRUE],
                   outcome |-> "returned"]
             ELSE LET at_failure == IF fails_at = "connect_over_cdp" THEN started
                                    ELSE attached
                      cleanup == pw_close(at_failure, browser_connected, cleanup_fails_at)
                  IN  [adapter |-> cleanup.adapter,
                       outcome |-> IF cleanup.raised THEN "raised" ELSE "ConnectionError"]

pw_idle_others ==
    /\ orch_idle
    /\ history = <<>>
    /\ max_history_items = DefaultMaxHistoryItems
    /\ view = [done |-> FALSE, raised |-> FALSE, value |-> <<>>]
    /\ ctx_idle /\ reg_idle /\ plan_idle
    /\ routine_idle /\ mcp_idle /\ run_idle

\* PlaywrightAdapter(config) has been constructed
PlaywrightInit ==
    /\ pw_idle_others
    /\ pw_playwright = pw_cleared.playwright
    /\ pw_browser = pw_cleared.browser
    /\ pw_page = pw_cleared.page
    /\ is_connected = pw_cleared.is_connected
    /\ pw_calls = <<>>

pw_frame ==
    UNCHANGED <<orch_vars, trim_vars, ctx_vars, reg_vars, plan_vars, routine_vars,
                mcp_vars, run_vars>>

pw_becomes(a) ==
    /\ pw_playwright' = a.playwright
    /\ pw_browser' = a.browser
    /\ pw_page' = a.page
    /\ is_connected' = a.is_connected

\* a call of connect()
PlaywrightConnect(fails_at, browser_connected, cleanup_fails_at) ==
    /\ Len(pw_calls) < MaxAdapterCalls
    /\ LET result == pw_connect(pw_adapter, fails_at, browser_connected, cleanup_fails_at)
       IN  /\ pw_becomes(result.adapter)
           /\ pw_calls' = Append(pw_calls, [call |-> "connect",
                                            outcome |-> result.outcome])
    /\ pw_frame

\* a call of close()
PlaywrightClose(browser_connected, fails_at) ==
    /\ Len(pw_calls) < MaxAdapterCalls
    /\ LET result == pw_close(pw_adapter, browser_connected, fails_at)
       IN  /\ pw_becomes(result.adapter)
           /\ pw_calls' = Append(pw_calls,
                                 [call |-> "close",
                                  outcome |-> IF result.raised THEN "raised"
                                              ELSE "returned"])
    /\ pw_frame

PlaywrightNext ==
    \/ \E fails_at \in ConnectFailures, browser_connected \in BOOLEAN,
          cleanup_fails_at \in CloseFailures :
          PlaywrightConnect(fails_at, browser_connected, cleanup_fails_at)
    \/ \E browser_connected \in BOOLEAN, fails_at \in CloseFailures :
          PlaywrightClose(browser_connected, fails_at)

PlaywrightSpec == PlaywrightInit /\ [][PlaywrightNext]_vars

-----------------------------------------------------------------------------
(* BrowserMCPAdapter: the actions that call a tool, and close(), one call at  *)
(* a time; starting the server and entering the client may raise.             *)

\* navigate, type_text, click and wait_for_element: connect(), then call_tool
MCPActions == {"navigate", "type_text", "click", "wait_for_element"}

\* self.client: None, or a Client whose __aenter__ raised ("failed"), returned
\* ("entered"), or that close() has left ("exited")
ClientStates == {None, "failed", "entered", "exited"}

\* connect(), lines 41-61, with _start_server, lines 21-39. server_starts and
\* client_enters say whether create_subprocess_exec and __aenter__ return. The
\* result is the adapter's fields afterwards, whether connect() went through
\* its body, and whether it raised.
mcp_connect(c, p, server_starts, client_enters) ==
    IF c # None
    THEN [client |-> c, process |-> p, attempted |-> FALSE, raised |-> "no"]
    ELSE IF ~ server_starts
    THEN [client |-> c, process |-> p, attempted |-> TRUE, raised |-> "_start_server"]
    ELSE IF ~ client_enters
    THEN [client |-> "failed", process |-> p + 1, attempted |-> TRUE,
          raised |-> "__aenter__"]
    ELSE [client |-> "entered", process |-> p + 1, attempted |-> TRUE, raised |-> "no"]

\* navigate (63-66), type_text (68-71), click (73-76), wait_for_element (78-81):
\* `await self.connect()`, then `await self.client.call_tool(...)`. The entry
\* logged says how the call ended and over which client call_tool was sent.
mcp_action(name, c, p, server_starts, client_enters) ==
    LET connected == mcp_connect(c, p, server_starts, client_enters)
    IN  [client |-> connected.client,
         process |-> connected.process,
         entry |-> [call |-> name, attempted_connect |-> connected.attempted,
                    outcome |-> IF connected.raised = "no" THEN "call_tool"
                                ELSE connected.raised,
                    over |-> connected.client]]

\* close(), lines 92-106: the client is exited if there is one; self.client and
\* self.process keep their values
mcp_close(c) == IF c = "entered" THEN "exited" ELSE c

mcp_idle_others ==
    /\ orch_idle
    /\ history = <<>>
    /\ max_history_items = DefaultMaxHistoryItems
    /\ view = [done |-> FALSE, raised |-> FALSE, value |-> <<>>]
    /\ ctx_idle /\ reg_idle /\ plan_idle
    /\ routine_idle /\ pw_idle /\ run_idle

\* BrowserMCPAdapter(config) has been constructed, lines 8-12
MCPInit ==
    /\ mcp_idle_others
    /\ client = None
    /\ process = 0
    /\ mcp_calls = <<>>

mcp_frame ==
    UNCHANGED <<orch_vars, trim_vars, ctx_vars, reg_vars, plan_vars, routine_vars,
                pw_vars, run_vars>>

\* a call of one of the four actions
MCPAction(name, server_starts, client_enters) ==
    /\ Len(mcp_calls) < MaxAdapterCalls
    /\ LET result == mcp_action(name, client, process, server_starts, client_enters)
       IN  /\ client' = result.client
           /\ process' = result.process
           /\ mcp_calls' = Append(mcp_calls, result.entry)
    /\ mcp_frame

\* a call of close()
MCPClose ==
    /\ Len(mcp_calls) < MaxAdapterCalls
    /\ client' = mcp_close(client)
    /\ mcp_calls' = Append(mcp_calls, [call |-> "close", attempted_connect |-> FALSE,
                                       outcome |-> "returned", over |-> client])
    /\ UNCHANGED process
    /\ mcp_frame

MCPNext ==
    \/ \E name \in MCPActions, server_starts \in BOOLEAN, client_enters \in BOOLEAN :
          MCPAction(name, server_starts, client_enters)
    \/ MCPClose

MCPSpec == MCPInit /\ [][MCPNext]_vars

-----------------------------------------------------------------------------
(* Routines: run_routine steps, execute_routine and substitute_params.        *)

\* the entries of a loop_with list
MaxLoop == 2

\* the nesting of execute_routine calls at which the interpreter's recursion
\* limit is reached
RecursionLimit == 3

\* models.Step with the fields a routine uses; loop_with is a record saying
\* whether the list is given and, if so, its entries; an entry (a dict) is a
\* sequence of <<key, value>> pairs in insertion order
RoutineStep(name, type, prompt, function_name, routine_name, loop_with) ==
    [name |-> name, type |-> type, prompt |-> prompt, function_name |-> function_name,
     routine_name |-> routine_name, loop_with |-> loop_with]

\* loop_with: Optional[List[Dict]] = None
no_loop_with == [present |-> FALSE, entries |-> <<>>]
loop_with_of(entries) == [present |-> TRUE, entries |-> entries]

\* str.replace(old, new): every non-overlapping occurrence, from the left
RECURSIVE replace(_, _, _)
replace(s, old, new) ==
    IF Len(s) < Len(old) THEN s
    ELSE IF SubSeq(s, 1, Len(old)) = old
    THEN new \o replace(SubSeq(s, Len(old) + 1, Len(s)), old, new)
    ELSE SubSeq(s, 1, 1) \o replace(SubSeq(s, 2, Len(s)), old, new)

\* substitute_params on a string, lines 61-65: one replace per key of params,
\* in the order of the dict, each on the result of the one before
RECURSIVE substitute_str(_, _, _)
substitute_str(data, params, n) ==
    IF n = 0 THEN data
    ELSE replace(substitute_str(data, params, n - 1),
                 "{{params." \o params[n][1] \o "}}", params[n][2])

\* substitute_params on a dict of strings, lines 66-67: the values only
substitute_dict(entry, params) ==
    [k \in 1..Len(entry) |->
        <<entry[k][1], substitute_str(entry[k][2], params, Len(params))>>]

\* substitute_params on the dump of a step, lines 59-71: every string of it,
\* through its dicts and lists; None is left as it is
substitute_params(step, params) ==
    LET sub(x) == IF x = None THEN None ELSE substitute_str(x, params, Len(params))
    IN  [name |-> sub(step.name),
         type |-> sub(step.type),
         prompt |-> [w \in 1..Len(step.prompt) |-> sub(step.prompt[w])],
         function_name |-> sub(step.function_name),
         routine_name |-> sub(step.routine_name),
         loop_with |-> [present |-> step.loop_with.present,
                        entries |-> [i \in 1..Len(step.loop_with.entries) |->
                                        substitute_dict(step.loop_with.entries[i],
                                                        params)]]]

\* execute_routine, line 95: `step.loop_with if step.loop_with else [{}]`
param_sets(step) ==
    IF step.loop_with.present /\ step.loop_with.entries # <<>>
    THEN step.loop_with.entries
    ELSE << <<>> >>

\* the step instances of one iteration, lines 101-104
instances(template, params) ==
    [j \in 1..Len(template) |-> substitute_params(template[j], params)]

\* the step instances the two loops of execute_routine (lines 97-105) create,
\* in the order in which they are executed
RECURSIVE instances_upto(_, _, _)
instances_upto(template, sets, n) ==
    IF n = 0 THEN <<>>
    ELSE instances_upto(template, sets, n - 1) \o instances(template, sets[n])

\* execute_routine, line 90: the routine the step names is defined
routine_defined(pb, step) ==
    /\ step.routine_name # None
    /\ step.routine_name \in DOMAIN pb.routines

\* the templates of the routines
press_template ==
    RoutineStep("press", "agent_step", <<"click", "{{params.target}}">>, None, None,
                no_loop_with)
read_template ==
    RoutineStep("read {{params.target}}", "skill_step", <<>>, "{{params.fn}}", None,
                no_loop_with)
run_routine_step(name, routine_name, loop_with) ==
    RoutineStep(name, "run_routine", <<>>, None, routine_name, loop_with)

\* Playbook.routines: a routine of an agent step and a skill step, a routine that
\* runs itself, and a routine that runs the first one with params of its own
Routines ==
    ("form" :> <<press_template, read_template>>)
      @@ ("again" :> <<run_routine_step("once more", "again", no_loop_with)>>)
      @@ ("outer" :> <<run_routine_step("inner", "form",
                          loop_with_of(<< << <<"target", "{{params.field}}">>,
                                             <<"fn", "read_clipboard">> >> >>))>>)

\* the entries a loop_with list is made of
LoopEntries ==
    { << <<"target", "save">>, <<"fn", "read_clipboard">> >>,
      << <<"target", "{{params.fn}}">>, <<"fn", "navigate">> >> }

LoopWiths ==
    {no_loop_with} \cup {loop_with_of(l) : l \in SeqsUpTo(LoopEntries, MaxLoop)}

\* the playbooks of the routine runs
RoutinePlaybooks ==
    {[steps |-> <<run_routine_step("fill", "form", lw)>>, routines |-> Routines] :
        lw \in LoopWiths}
      \cup {[steps |-> <<run_routine_step("forever", "again", no_loop_with)>>,
             routines |-> Routines],
            [steps |-> <<run_routine_step("nested", "outer",
                            loop_with_of(<< << <<"field", "name">> >> >>))>>,
             routines |-> Routines],
            [steps |-> <<run_routine_step("lost", "missing", no_loop_with),
                         RoutineStep("ask", "human_intervention", <<"check">>, None,
                                     None, no_loop_with),
                         RoutineStep("rest", "pause", <<>>, None, None, no_loop_with)>>,
             routines |-> <<>>]}

RoutineInit ==
    /\ playbook \in RoutinePlaybooks
    /\ response_role \in ResponseRoles
    /\ todo = playbook.steps
    /\ messages = create_context(playbook).messages
    /\ current_step = create_context(playbook).current_step
    /\ pc = "next"
    /\ tool_calls = <<>>
    /\ ci = 0
    /\ tool_responses = <<>>
    /\ inflight = {}
    /\ planner_calls = 0
    /\ invoked = <<>>
    /\ appended = <<>>
    /\ steps_done = 0
    /\ returned = [kind |-> "none"]
    /\ history = <<>>
    /\ max_history_items = DefaultMaxHistoryItems
    /\ view = [done |-> FALSE, raised |-> FALSE, value |-> <<>>]
    /\ ctx_idle /\ reg_idle /\ plan_idle /\ ext_idle

\* what a step of execute_routine leaves alone
routine_frame ==
    /\ no_tool_loop
    /\ UNCHANGED <<playbook, response_role, trim_vars, ctx_vars, reg_vars, plan_vars,
                   pw_vars, mcp_vars, run_vars, messages, appended, inflight,
                   planner_calls, invoked>>

\* execute_step -> execute_routine, lines 90-92: the routine is not defined
RoutineNotFound ==
    /\ BeginStep("run_routine")
    /\ ~ routine_defined(playbook, Head(todo))
    /\ steps_done' = steps_done + 1
    /\ routine_frame
    /\ UNCHANGED <<frames, pc, returned>>

\* execute_routine, lines 94-105: the loops over param_sets and the template
\* start; the caller's loop is suspended until they are over
ExecuteRoutine ==
    /\ pc = "next"
    /\ todo # <<>>
    /\ Head(todo).type = "run_routine"
    /\ routine_defined(playbook, Head(todo))
    /\ Len(frames) < RecursionLimit
    /\ current_step' = Head(todo)
    /\ frames' = <<Tail(todo)>> \o frames
    /\ todo' = LET sets == param_sets(Head(todo))
               IN  instances_upto(playbook.routines[Head(todo).routine_name],
                                  sets, Len(sets))
    /\ routine_frame
    /\ UNCHANGED <<pc, steps_done, returned>>

\* execute_routine returns to the loop of its caller
EndRoutine ==
    /\ pc = "next"
    /\ todo = <<>>
    /\ frames # <<>>
    /\ todo' = Head(frames)
    /\ frames' = Tail(frames)
    /\ steps_done' = steps_done + 1
    /\ routine_frame
    /\ UNCHANGED <<current_step, pc, returned>>

\* the nesting of execute_step and execute_routine calls has reached the
\* interpreter's limit: RecursionError, which nothing catches
RoutineRecursionError ==
    /\ pc = "next"
    /\ todo # <<>>
    /\ Head(todo).type = "run_routine"
    /\ routine_defined(playbook, Head(todo))
    /\ Len(frames) = RecursionLimit
    /\ current_step' = Head(todo)
    /\ pc' = "raised"
    /\ returned' = [kind |-> "exception", from |-> "execute_routine",
                    error |-> "RecursionError"]
    /\ routine_frame
    /\ UNCHANGED <<todo, frames, steps_done>>

RoutineNext ==
    \/ Next
    \/ RoutineNotFound
    \/ ExecuteRoutine
    \/ EndRoutine
    \/ RoutineRecursionError

RoutineSpec == RoutineInit /\ [][RoutineNext]_vars

-----------------------------------------------------------------------------
(* Two execute_playbook calls on one Orchestrator, interleaved at their       *)
(* await points.                                                              *)

Runs == {1, 2}

\* the run that is not r
other_run(r) == 3 - r

\* self.context_manager.create_context(playbook), line 61: every call creates
\* a new AegisContext, which joins the objects created so far
new_context(ctxs, pb) == Append(ctxs, create_context(pb))

\* an append that reaches the message list of every context, as a list shared
\* between the contexts would
context_append_shared(ctxs, id, m) ==
    [i \in 1..Len(ctxs) |-> [ctxs[i] EXCEPT !.messages = Append(@, m)]]

\* aegis_context.messages.append(m) on the context with identity id
context_append(ctxs, id, m) ==
    [ctxs EXCEPT ![id].messages = Append(@, m)]

\* handle_tool_calls, lines 169-173, on the context with identity id
context_attach(ctxs, id, responses) ==
    [ctxs EXCEPT ![id].messages = attach_responses(@, responses)]

\* the playbook of run r: agent steps whose prompt names the run
run_prompt(r) == <<"click", ToString(r)>>
run_playbook(r, n) ==
    [steps |-> [i \in 1..n |-> [name |-> "act", type |-> "agent_step",
                                prompt |-> run_prompt(r), function_name |-> None]]]

\* the single call a planner response of run r proposes
run_call(r) == [id |-> r, function_name |-> "launch_app"]

runs_idle_others ==
    /\ orch_idle
    /\ history = <<>>
    /\ max_history_items = DefaultMaxHistoryItems
    /\ view = [done |-> FALSE, raised |-> FALSE, value |-> <<>>]
    /\ ctx_idle /\ plan_idle
    /\ routine_idle /\ pw_idle /\ mcp_idle

\* Orchestrator.__init__ has built the registries; no run has started
RunsInit ==
    /\ runs_idle_others
    /\ adapters = adapters_with_tools
    /\ dispatch_map = tool_dispatch_map
    /\ definitions = <<>>
    /\ registry_built = TRUE
    /\ contexts = <<>>
    /\ run_context = [r \in Runs |-> 0]
    /\ run_pc = [r \in Runs |-> "idle"]
    /\ run_todo \in [Runs -> 1..MaxSteps]

runs_frame ==
    UNCHANGED <<orch_vars, trim_vars, ctx_vars, reg_vars, plan_vars, routine_vars,
                pw_vars, mcp_vars>>

\* execute_playbook, lines 57-61: run r creates its context
RunStart(r) ==
    /\ run_pc[r] = "idle"
    /\ contexts' = new_context(contexts, run_playbook(r, run_todo[r]))
    /\ run_context' = [run_context EXCEPT ![r] = Len(contexts')]
    /\ run_pc' = [run_pc EXCEPT ![r] = "next"]
    /\ UNCHANGED run_todo
    /\ runs_frame

\* execute_agent_step, lines 113-115, of run r: the prompt is appended and
\* chat_completion is awaited
RunExecuteAgentStep(r) ==
    /\ run_pc[r] = "next"
    /\ run_todo[r] > 0
    /\ contexts' = context_append(contexts, run_context[r],
                                  Message("user", run_prompt(r), <<>>, <<>>))
    /\ run_pc' = [run_pc EXCEPT ![r] = "llm"]
    /\ UNCHANGED <<run_context, run_todo>>
    /\ runs_frame

\* execute_agent_step, lines 116-122, of run r: the response is appended; with
\* tool calls, the first one is looked up in the registry and awaited
RunChatCompletionReturns(r, role, calls) ==
    /\ run_pc[r] = "llm"
    /\ contexts' = context_append(contexts, run_context[r],
                                  Message(role, <<>>, calls, <<>>))
    /\ IF calls # <<>>
       THEN /\ run_pc' = [run_pc EXCEPT ![r] = "tool"]
            /\ UNCHANGED run_todo
       ELSE /\ run_pc' = [run_pc EXCEPT ![r] = "next"]
            /\ run_todo' = [run_todo EXCEPT ![r] = @ - 1]
    /\ UNCHANGED run_context
    /\ runs_frame

\* handle_tool_calls of run r returns: the responses are recorded in its context
RunToolReturns(r, result) ==
    /\ run_pc[r] = "tool"
    /\ LET call == run_call(r)
           content == IF (\E b \in dispatch_map : b[1] = call.function_name)
                      THEN success_content(result) ELSE not_found_content
       IN  contexts' = context_attach(contexts, run_context[r],
                                      <<ToolResponse(call, content)>>)
    /\ run_pc' = [run_pc EXCEPT ![r] = "next"]
    /\ run_todo' = [run_todo EXCEPT ![r] = @ - 1]
    /\ UNCHANGED run_context
    /\ runs_frame

\* execute_playbook, lines 69-70, of run r
RunReturn(r) ==
    /\ run_pc[r] = "next"
    /\ run_todo[r] = 0
    /\ run_pc' = [run_pc EXCEPT ![r] = "returned"]
    /\ UNCHANGED <<contexts, run_context, run_todo>>
    /\ runs_frame

RunsNext ==
    \/ \E r \in Runs : RunStart(r)
    \/ \E r \in Runs : RunExecuteAgentStep(r)
    \/ \E r \in Runs, role \in ResponseRoles :
          \E calls \in {<<>>, <<run_call(r)>>} :
             RunChatCompletionReturns(r, role, calls)
    \/ \E r \in Runs, result \in {"", "ok"} : RunToolReturns(r, result)
    \/ \E r \in Runs : RunReturn(r)

RunsSpec == RunsInit /\ [][RunsNext]_vars

-----------------------------------------------------------------------------
(* What the claims speak about. *)

Steps == playbook.steps

AgentOnly == Steps # <<>> /\ \A i \in 1..Len(Steps) : Steps[i].type = "agent_step"

Names(m) == {m.tool_calls[j].function_name : j \in 1..Len(m.tool_calls)}

\* the messages that are model responses proposing actions
PlanIndexes == {i \in 1..Len(messages) : messages[i].tool_calls # <<>>}

FinishProposed == \E i \in PlanIndexes : "finish_task" \in Names(messages[i])

\* handle_tool_calls is not at work on the plan of message i
Handled(i) == ~ (pc \in {"calls", "tool"} /\ i = Len(messages))

\* the results the history holds for the plan of message i
ResultsOf(i) ==
    IF messages[i].tool_responses # <<>> THEN messages[i].tool_responses
    ELSE IF i < Len(messages) /\ messages[i + 1].role = "tool"
         THEN messages[i + 1].tool_responses
         ELSE <<>>

\* every tool result recorded so far, in the history or in the running loop
RecordedResponses ==
    {tool_responses[j] : j \in 1..Len(tool_responses)}
        \cup UNION {{messages[i].tool_responses[j] :
                        j \in 1..Len(messages[i].tool_responses)} :
                    i \in 1..Len(messages)}

RegisteredNames == {b[1] : b \in tool_dispatch_map}

Terminal == pc \in {"returned", "raised"}

\* the run is at a position from which it goes on, and accounts for every step
RunGoesOn ==
    /\ ~ Terminal => ENABLED Next
    /\ steps_done + Len(todo) + (IF pc \in {"next", "returned"} THEN 0 ELSE 1)
           = Len(Steps)
    /\ pc = "returned" => steps_done = Len(Steps) /\ todo = <<>>

HasReason(r, reason) ==
    /\ r.kind = "context"
    /\ "terminated_reason" \in DOMAIN r.value
    /\ r.value.terminated_reason = reason

-----------------------------------------------------------------------------
(* The claims. *)

C2_CapabilityErrorsIsolated ==
    /\ pc = "raised" => returned.kind = "exception" /\ returned.from = "chat_completion"
    /\ \A k \in 1..Len(invoked) :
          invoked[k].outcome = "raised"
            => IF invoked[k].kind = "tool"
               THEN \E r \in RecordedResponses, e \in Errors :
                       /\ r.tool_call_id = invoked[k].id
                       /\ r.tool_name = invoked[k].name
                       /\ r.content = <<"Error:", e>>
               ELSE \E i \in 1..Len(messages), e \in Errors :
                       /\ messages[i].role = "user"
                       /\ messages[i].content
                              = <<"Error executing skill", Steps[invoked[k].step].name, e>>
    /\ \A i \in PlanIndexes :
          Handled(i)
            => \A j \in 1..Len(messages[i].tool_calls) :
                  messages[i].tool_calls[j].function_name \in RegisteredNames
                    => \E k \in 1..Len(invoked) :
                          /\ invoked[k].kind = "tool"
                          /\ invoked[k].id = messages[i].tool_calls[j].id
                          /\ invoked[k].outcome # "pending"
    /\ RunGoesOn

C2_Witness ==
    /\ pc = "returned"
    /\ Len(Steps) = 2
    /\ steps_done = 2
    /\ \E k \in 1..(Len(invoked) - 1) :
          /\ invoked[k].kind = "tool"
          /\ invoked[k].step = 1
          /\ invoked[k].outcome = "raised"
          /\ invoked[k + 1].step = 1
          /\ invoked[k + 1].outcome = "returned"

\* C3: a proposed action whose name is not in the registry is never invoked;
\* once its plan is handled the history holds exactly one result for it, the
\* failed result "Error: Tool not found"; every action of the plan has its
\* result, the registered ones were invoked, and the run goes on.  Nothing
\* outside the registry is ever invoked, by a plan or by a skill step.
C3_UnknownNameIsAFailedResult ==
    /\ \A k \in 1..Len(invoked) : invoked[k].name \in RegisteredNames
    /\ \A i \in PlanIndexes :
          LET calls == messages[i].tool_calls
              results == ResultsOf(i)
          IN  \A j \in 1..Len(calls) :
                 /\ calls[j].function_name \notin RegisteredNames
                      => /\ \A k \in 1..Len(invoked) :
                               ~ (invoked[k].kind = "tool" /\ invoked[k].id = calls[j].id)
                         /\ Handled(i)
                              => /\ Cardinality({n \in 1..Len(results) :
                                        results[n].tool_call_id = calls[j].id}) = 1
                                 /\ \A n \in 1..Len(results) :
                                       results[n].tool_call_id = calls[j].id
                                         => results[n].content = <<"Error: Tool not found">>
                 /\ Handled(i)
                      => /\ \E n \in 1..Len(results) :
                               results[n].tool_call_id = calls[j].id
                         /\ calls[j].function_name \in RegisteredNames
                              => \E k \in 1..Len(invoked) :
                                    invoked[k].kind = "tool" /\ invoked[k].id = calls[j].id
    /\ RunGoesOn

C3_Witness ==
    /\ pc = "returned"
    /\ Len(Steps) = 2
    /\ \E i \in PlanIndexes :
          /\ i <= 2
          /\ Len(messages[i].tool_calls) = 2
          /\ messages[i].tool_calls[1].function_name = "click"
          /\ messages[i].tool_calls[2].function_name = "launch_app"
          /\ \E k \in 1..Len(invoked) : invoked[k].id = messages[i].tool_calls[2].id
          /\ planner_calls = 2

\* C4: at most one awaited call is in flight, and it is the one the run's
\* position names; a tool call starts only when the results of all earlier calls
\* of its plan are collected; the calls of a plan are invoked in the order
\* proposed; and a planner call starts only when every earlier plan has all its
\* results and no invocation is pending.
C4_Sequential ==
    /\ Cardinality(inflight) <= 1
    /\ pc = "llm" => inflight = {LLMCall}
    /\ pc = "tool"
         => /\ inflight = {ToolCallInFlight(tool_calls[ci].id, tool_calls[ci].function_name)}
            /\ Len(tool_responses) = ci - 1
            /\ \A j \in 1..(ci - 1) : tool_responses[j].tool_call_id = tool_calls[j].id
    /\ pc = "skill" => inflight = {ToolCallInFlight(0, current_step.function_name)}
    /\ pc \notin {"llm", "tool", "skill"} => inflight = {}
    /\ \A k \in 1..Len(invoked) :
          invoked[k].outcome = "pending" => k = Len(invoked) /\ pc \in {"tool", "skill"}
    /\ \A k1, k2 \in 1..Len(invoked) :
          (k1 < k2 /\ invoked[k1].kind = "tool" /\ invoked[k2].kind = "tool")
            => invoked[k1].id < invoked[k2].id
    /\ pc = "llm"
         => \A i \in PlanIndexes : Len(ResultsOf(i)) = Len(messages[i].tool_calls)

C4_Witness ==
    /\ pc = "llm"
    /\ planner_calls = 2
    /\ Len(invoked) = 2
    /\ invoked[1].kind = "tool"
    /\ invoked[2].kind = "tool"

\* C5: for every plan that has been handled the history holds one result per
\* proposed action, and the i-th result carries the id and the name of the i-th
\* action, whether the action returned, raised or was unknown.
C5_OneResultPerAction ==
    \A i \in PlanIndexes :
        Handled(i)
          => LET calls == messages[i].tool_calls
                 results == ResultsOf(i)
             IN  /\ Len(results) = Len(calls)
                 /\ \A j \in 1..Len(calls) :
                       /\ results[j].tool_call_id = calls[j].id
                       /\ results[j].tool_name = calls[j].function_name

C5_Witness ==
    /\ pc = "returned"
    /\ \E i \in PlanIndexes :
          /\ Len(messages[i].tool_calls) = 2
          /\ ResultsOf(i)[1].content = <<"Error:", "boom">>
          /\ ResultsOf(i)[2].content = <<"Error: Tool not found">>

IsPlanTurn(m) == m.role = response_role
IsResultTurn(m) == m.role = "tool"

\* C6: the history never holds two consecutive model responses nor two
\* consecutive tool-result turns.
C6_Alternation ==
    \A i \in 1..(Len(messages) - 1) :
        /\ ~ (IsPlanTurn(messages[i]) /\ IsPlanTurn(messages[i + 1]))
        /\ ~ (IsResultTurn(messages[i]) /\ IsResultTurn(messages[i + 1]))

\* C7: a non-empty history starts with the human turn; no model response is
\* appended to an empty history.
C7_GoalAtIndexZero ==
    messages # <<>> => messages[1].role = "user"

C9_GoalRetained ==
    (view.done /\ history # <<>> /\ Len(history) > max_history_items)
        => /\ ~ view.raised
           /\ view.value # <<>>
           /\ view.value[1] = history[1]

C9_Witness ==
    /\ view.done
    /\ Len(history) = 4
    /\ max_history_items = 2
    /\ history[1] # history[3]
    /\ history[1] # history[4]
    /\ view.value[1] = history[1]

\* C10: with max_history_items >= 1, the trimmed view of a longer history is
\* history[0] followed by the last max_history_items - 1 turns, max_history_items
\* turns in all; a history that is not longer is returned as it is.
C10_TrimmedView ==
    (view.done /\ max_history_items >= 1)
        => IF Len(history) > max_history_items
           THEN /\ ~ view.raised
                /\ Len(view.value) = max_history_items
                /\ view.value = <<history[1]>>
                      \o SubSeq(history, Len(history) - max_history_items + 2, Len(history))
           ELSE view.value = history

\* the marker _truncate_content appends for a limit of `tokens`
Marker(tokens) ==
    "\n\n... [Output truncated to approximately " \o ToString(tokens) \o " tokens]"

\* C11: trimming is idempotent: managing the view again gives the view, and
\* truncating a truncated output again gives the truncated output.
C11_TrimIdempotent ==
    /\ (view.done /\ ~ view.raised) => manage(view.value, max_history_items) = view
    /\ \A i \in ToolTurns :
          truncate_content(history[i].content, max_tool_output_tokens) = history[i].content

\* C12 (as stated): with max_output_chars the configured limit, an output longer
\* than the limit is stored as its first max_output_chars characters followed
\* by the marker, and an output of at most max_output_chars characters is
\* stored unchanged.
C12_TruncatedAtMaxOutputChars ==
    max_tool_output_tokens >= 0
      => \A i \in ToolTurns :
            IF Len(outputs[i]) > max_tool_output_tokens
            THEN /\ history[i].content
                       = SubSeq(outputs[i], 1, max_tool_output_tokens)
                             \o Marker(max_tool_output_tokens)
                 /\ Len(history[i].content)
                       <= max_tool_output_tokens + Len(Marker(max_tool_output_tokens))
            ELSE history[i].content = outputs[i]

\* C12 (amended): with a limit of max_tool_output_tokens >= 0, an output longer
\* than 4 * max_tool_output_tokens characters is stored as its first
\* 4 * max_tool_output_tokens characters followed by the marker, so its length
\* is that many characters plus the marker's; an output of at most
\* 4 * max_tool_output_tokens characters is stored unchanged (a 5000-character
\* output with limit 2000 is left as it is).
C12_TruncatedAtFourCharsPerToken ==
    max_tool_output_tokens >= 0
      => \A i \in ToolTurns :
            /\ IF Len(outputs[i]) > 4 * max_tool_output_tokens
               THEN /\ history[i].content
                          = SubSeq(outputs[i], 1, 4 * max_tool_output_tokens)
                                \o Marker(max_tool_output_tokens)
                    /\ Len(history[i].content)
                          = 4 * max_tool_output_tokens + Len(Marker(max_tool_output_tokens))
               ELSE history[i].content = outputs[i]
            /\ (Len(outputs[i]) = 5000 /\ max_tool_output_tokens = 2000)
                 => history[i].content = outputs[i]

C12_Witness ==
    /\ max_tool_output_tokens = 2000
    /\ \E i, j \in ToolTurns :
          /\ Len(outputs[i]) = 8001
          /\ Len(history[i].content) = 8000 + Len(Marker(2000))
          /\ Len(outputs[j]) = 5000
          /\ history[j].content = outputs[j]

\* C15 (as stated): the history holds one turn per turn added, and every tool
\* output stored in it is the full output that was given to add_tool_result.
C15_FullOutputsStored ==
    /\ Len(history) = Len(outputs)
    /\ \A i \in ToolTurns : history[i].content = outputs[i]

\* what add_tool_result stored for the tool result at turn i, for a limit >= 0
StoredTruncated(i) ==
    LET max_chars == 4 * max_tool_output_tokens
    IN  IF Len(outputs[i]) > max_chars
        THEN /\ history[i].content # outputs[i]
             /\ SubSeq(history[i].content, 1, max_chars) = SubSeq(outputs[i], 1, max_chars)
             /\ Len(history[i].content) = max_chars + Len(Marker(max_tool_output_tokens))
        ELSE history[i].content = outputs[i]

\* C15 (amended): manage never changes the history it is given: the turns stay
\* the same, in the same order; the history holds one turn per turn added, in
\* the order added; and a tool output that add_tool_result stored is the full
\* output only when it has at most 4 * max_tool_output_tokens characters: a
\* longer one is stored truncated (for a limit >= 0).
C15_ManageLeavesHistory ==
    /\ [][view' # view => history' = history /\ outputs' = outputs]_vars
    /\ [][history' # history
            => /\ Len(history') = Len(history) + 1
               /\ SubSeq(history', 1, Len(history)) = history]_vars
    /\ [](/\ Len(history) = Len(outputs)
          /\ \A i \in ToolTurns :
                /\ history[i].type = "tool"
                /\ max_tool_output_tokens >= 0 => StoredTruncated(i))

C15_Witness ==
    /\ view.done
    /\ max_history_items = 2
    /\ Len(history) = 4
    /\ Len(view.value) = 2
    /\ max_tool_output_tokens = 1
    /\ outputs[3] = "abcdefgh"
    /\ history[3].content # outputs[3]
    /\ outputs[4] = "abc"
    /\ history[4].content = "abc"

\* C16: a limit max_history_items < 1 is rejected when the ContextManager is
\* constructed, so no manage call is ever made with max_history_items < 1.
C16_LimitBelowOneRejected ==
    view.done => max_history_items >= 1

\* number of characters of a content: its pieces joined by single spaces
RECURSIVE content_chars(_)
content_chars(content) ==
    IF content = <<>> THEN 0
    ELSE Len(Head(content))
           + (IF Len(content) > 1 THEN 1 + content_chars(Tail(content)) ELSE 0)

\* the tool outputs in the messages a planning call is handed
OutputsHanded ==
    UNION {{messages[i].tool_responses[j].content :
               j \in 1..Len(messages[i].tool_responses)} : i \in 1..Len(messages)}

\* C13: in every planning call (chat_completion is handed aegis_context.messages)
\* every tool output in the history handed to the model has at most
\* max_output_chars characters plus the marker's, whatever the number of turns.
C13_OutputsBoundedInPlanningCalls ==
    pc = "llm"
      => \A content \in OutputsHanded :
            content_chars(content)
                <= 4 * max_tool_output_tokens + Len(Marker(max_tool_output_tokens))

\* C14: every planning call is handed at most max_history_items turns, however
\* many turns the run has accumulated.
C14_PlannerGetsTrimmedView ==
    pc = "llm" => Len(messages) <= max_history_items

\* the model responses that propose no action
EmptyPlans ==
    {i \in 1..Len(messages) :
        messages[i].role = response_role /\ messages[i].tool_calls = <<>>}

C20_FinishEndsRun ==
    \A i \in PlanIndexes :
        "finish_task" \in Names(messages[i])
          => /\ i = Len(messages)
             /\ pc \in {"next", "returned"}
             /\ pc = "next" => todo = <<>>
             /\ messages[i].tool_responses = <<>>
             /\ \A j \in 1..Len(messages[i].tool_calls), k \in 1..Len(invoked) :
                   ~ (invoked[k].kind = "tool" /\ invoked[k].id = messages[i].tool_calls[j].id)
             /\ pc = "returned" => HasReason(returned, "explicit_finish")

\* the adapters whose get_tools lists name, by position
Offering(name) ==
    {n \in 1..Len(adapters) :
        adapters[n].has_get_tools
          /\ \E i \in 1..Len(adapters[n].tools) : adapters[n].tools[i] = name}

\* the greatest element of a non-empty set of numbers
Greatest(S) == CHOOSE n \in S : \A k \in S : k <= n

C18_RetriesThenFatal ==
    /\ attempt_number <= 3
    /\ plan_outcome.kind = "none" => Len(model_errors) = attempt_number - 1
    /\ plan_outcome.kind = "returned" => Len(model_errors) = attempt_number - 1
    /\ (plan_outcome.kind # "none" /\ Len(model_errors) = attempt_number)
         => attempt_number = 3 /\ plan_outcome.kind = "raised"

\* C21 (as stated): the history is append-only; a step of the run leaves every
\* turn it already holds at its index with identical content, so the history
\* before the step is a prefix of the history after it.
C21_AppendOnly ==
    [][SubSeq(messages', 1, Len(messages)) = messages]_vars

\* C21 (amended): no step of a run removes or reorders a message or changes the
\* role, content or tool_calls of a message; a step appends at most one message
\* at the end, or sets the tool_responses of the last message, which then is an
\* assistant message that had none, and of no other message.
C21_AppendOrAttachToLast ==
    [][/\ Len(messages') \in {Len(messages), Len(messages) + 1}
       /\ \A i \in 1..Len(messages) :
            /\ Turn(messages'[i]) = Turn(messages[i])
            /\ messages'[i].tool_responses # messages[i].tool_responses
                 => /\ i = Len(messages)
                    /\ Len(messages') = Len(messages)
                    /\ messages[i].role = "assistant"
                    /\ messages[i].tool_responses = <<>>
                    /\ messages'[i].tool_responses # <<>>]_vars

\* a run in which results were attached to the assistant message that proposed
\* the calls, after the prompt of the step had been appended before it
C21_Witness ==
    /\ pc = "next"
    /\ Len(messages) >= 2
    /\ Last(messages).role = "assistant"
    /\ Last(messages).tool_calls # <<>>
    /\ Len(Last(messages).tool_responses) = Len(Last(messages).tool_calls)

\* the reasons a run outcome may carry according to StartRun's contract
TerminatedReasons == {"explicit_finish", "budget_exhausted", "fatal_error", "cancelled"}

\* C22: every run that has ended, one whose planner failed included, has returned
\* an outcome that carries exactly one terminated_reason of the four; none has
\* ended through an escaping exception or with an outcome without a reason.
C22_EndsWithOneReason ==
    Terminal
        => /\ returned.kind = "context"
           /\ \E reason \in TerminatedReasons :
                /\ HasReason(returned, reason)
                /\ \A other \in TerminatedReasons \ {reason} : ~ HasReason(returned, other)

\* the messages execute_skill_step may append for the step
SkillMessages(step) ==
    {skill_not_found_message(step)}
        \cup {skill_done_message(step, result) : result \in Results}
        \cup {skill_error_message(step, e) : e \in Errors}

\* C27: execute_skill_step returns normally for every outcome (function not
\* registered, skill returns, skill raises): the step that completes a skill step
\* appends exactly one user-role message, leaves all earlier messages unchanged
\* and leaves the run going; starting to await the skill appends nothing, the
\* awaited skill's outcome always completes the step, and a function that is not
\* registered is never invoked.
C27_SkillStepAppendsOneUserMessage ==
    [][/\ pc' = "skill" => messages' = messages
       /\ pc = "skill" => steps_done' = steps_done + 1
       /\ (steps_done' = steps_done + 1 /\ current_step'.type = "skill_step")
            => /\ pc' = "next"
               /\ returned' = returned
               /\ Len(messages') = Len(messages) + 1
               /\ SubSeq(messages', 1, Len(messages)) = messages
               /\ Last(messages').role = "user"
               /\ Last(messages') \in SkillMessages(current_step')
               /\ Last(messages') = skill_not_found_message(current_step')
                    <=> ~ resolves(current_step'.function_name)
               /\ ~ resolves(current_step'.function_name) => invoked' = invoked]_vars

\* a run of two skill steps: the first function is registered and raised, the
\* second is not registered; each left one user message
C27_Witness ==
    /\ pc = "next"
    /\ steps_done = 2
    /\ Len(Steps) = 2
    /\ \A i \in 1..2 : Steps[i].type = "skill_step"
    /\ Len(invoked) = 1
    /\ invoked[1].outcome = "raised"
    /\ Len(messages) = 2
    /\ messages[1] \in {skill_error_message(Steps[1], e) : e \in Errors}
    /\ messages[2] = skill_not_found_message(Steps[2])

\* the ids of the calls answered by the tool_responses of the messages msgs
AnsweredIds(msgs) ==
    UNION {{msgs[i].tool_responses[j].tool_call_id :
               j \in 1..Len(msgs[i].tool_responses)} : i \in 1..Len(msgs)}

\* responses answers the calls one for one, in the order of the calls
Answers(responses, calls) ==
    /\ Len(responses) = Len(calls)
    /\ \A j \in 1..Len(calls) :
          /\ responses[j].tool_call_id = calls[j].id
          /\ responses[j].tool_name = calls[j].function_name

\* C28: the step on which handle_tool_calls returns records the results of the
\* executed plan exactly once, next to the message that proposed the calls: that
\* message is the last one; when it is an assistant message the results become
\* its tool_responses, otherwise one new tool-role message holding them is
\* appended; the results answer the calls one for one, none of them was in the
\* history before, and no other message changes.
C28_ResultsRecordedOnce ==
    [][(pc \in {"calls", "tool"} /\ pc' = "next")
         => /\ messages # <<>>
            /\ Last(messages).tool_calls = tool_calls
            /\ \A j \in 1..Len(tool_calls) :
                  tool_calls[j].id \notin AnsweredIds(messages)
            /\ \E responses \in {Last(messages').tool_responses} :
                  /\ Answers(responses, tool_calls)
                  /\ IF Last(messages).role = "assistant"
                     THEN messages' = [messages EXCEPT
                                         ![Len(messages)].tool_responses = responses]
                     ELSE messages' = Append(messages,
                                             Message("tool", <<>>, <<>>, responses))]_vars

\* a plan of two calls proposed by a message that is not an assistant message:
\* its results are in the tool message appended after it
C28_Witness ==
    /\ pc = "next"
    /\ Len(messages) >= 2
    /\ Last(messages).role = "tool"
    /\ messages[Len(messages) - 1].role # "assistant"
    /\ Len(messages[Len(messages) - 1].tool_calls) = 2
    /\ Answers(Last(messages).tool_responses, messages[Len(messages) - 1].tool_calls)

C29_PlaywrightAdapterStates ==
    /\ [](is_connected
            => pw_playwright # None /\ pw_browser # None /\ pw_page # None)
    /\ [][LET call == Last(pw_calls')
          IN  /\ (call.call = "connect" /\ is_connected)
                   => pw_adapter' = pw_adapter /\ call.outcome = "returned"
              /\ (call.call = "connect" /\ call.outcome # "returned")
                   => pw_adapter' = pw_cleared /\ call.outcome = "ConnectionError"
              /\ call.call = "close" => pw_adapter' = pw_cleared]_vars

\* C30: a BrowserMCPAdapter sends a tool call only over a client whose
\* connection was established; after a connect() that failed, the next action
\* attempts to connect again instead of using the failed client; and no server
\* process is started while a connection is established.
C30_CallsOnlyOverEstablishedClient ==
    /\ [](\A i \in 1..Len(mcp_calls) :
            /\ mcp_calls[i].outcome = "call_tool" => mcp_calls[i].over = "entered"
            /\ (i > 1 /\ mcp_calls[i].call \in MCPActions
                      /\ mcp_calls[i - 1].outcome \in {"__aenter__", "_start_server"})
                 => mcp_calls[i].attempted_connect)
    /\ [][process' # process => client # "entered"]_vars

\* C25: execute_playbook terminates for every finite playbook whose planner and
\* capability calls all return: the steps executed, those reached through
\* run_routine steps included, are finitely many, so the nesting of routines
\* never grows until the interpreter's recursion limit ends the run.
C25_RoutineNestingIsBounded ==
    /\ Len(frames) <= RecursionLimit
    /\ returned.kind = "exception" => returned.from # "execute_routine"

IsUserMessage(m) == m.role = "user"

\* one set of params per entry of loop_with, and one empty set when loop_with
\* is absent
param_sets_per_entry(step) ==
    IF step.loop_with.present THEN step.loop_with.entries ELSE << <<>> >>

\* the message the execution of a step instance of the routine "form" leaves
LeftBy(step, m) ==
    IF step.type = "agent_step" THEN m = Message("user", step.prompt, <<>>, <<>>)
    ELSE m \in SkillMessages(step)

\* C26: a run_routine step that names a defined routine executes the routine's
\* steps in template order exactly once per entry of loop_with, in list order
\* and with that entry's params substituted, and exactly once without
\* substitution when loop_with is absent; the stored template is unchanged.
\* Stated for the playbooks whose only step runs the routine "form": when the
\* run has returned, the user messages of the history are those of the expected
\* step instances, one for one and in order.
C26_OncePerLoopEntry ==
    (pc = "returned" /\ Len(Steps) = 1 /\ Steps[1].routine_name = "form")
      => LET sets == param_sets_per_entry(Steps[1])
             expected == instances_upto(Routines["form"], sets, Len(sets))
             users == SelectSeq(messages, IsUserMessage)
         IN  /\ Len(users) = Len(expected)
             /\ \A k \in 1..Len(expected) : LeftBy(expected[k], users[k])
             /\ playbook.routines = Routines

\* run r takes the step
Acts(r) == run_pc'[r] # run_pc[r]

====
